---- MODULE Spec2Model ----
(***************************************************************************)
(* Scoundrel (src/scoundrel_text.py): a single-player card dungeon.        *)
(* The model follows run_game / Game.play_turn statement by statement:     *)
(* pc is the position of the program, the other variables are the fields   *)
(* of Game and Player and the locals of play_turn.                         *)
(***************************************************************************)
EXTENDS Integers, Sequences, FiniteSets, TLC

VARIABLES
    player,             \* Player: [health, weapon, slain_monsters]
    deck,               \* Game.deck, front = index 1
    discard_pile,       \* Game.discard_pile
    last_room_skipped,  \* Game.last_room_skipped
    room_carryover,     \* Game.room_carryover
    room,               \* play_turn local `room` (<<>> outside play_turn)
    potion_used,        \* play_turn local `potion_used`
    resolved,           \* play_turn loop `for _ in range(3)`: iterations done
    pc,                 \* program position
    printed,            \* kind of the last line written by print()
    turns               \* number of play_turn calls explored so far

vars == <<player, deck, discard_pile, last_room_skipped, room_carryover,
          room, potion_used, resolved, pc, printed, turns>>

----------------------------------------------------------------------------
(* Bounds *)

\* play_turn calls explored from each initial state
MaxTurns == 3

\* random.shuffle in skip_room: the outcomes explored are the cuts of the
\* deck at 0..MaxCut cards
MaxCut == 1

----------------------------------------------------------------------------
(* Card *)

None == [value |-> "None", suit |-> "None"]

Card(value, suit) == [value |-> value, suit |-> suit]

face_cards == [v \in {"J", "Q", "K", "Ace"} |->
                 CASE v = "J" -> 11 [] v = "Q" -> 12 [] v = "K" -> 13 [] v = "Ace" -> 14]

\* str.isdigit() on the values build_deck produces
isdigit(v) == v \in {"2", "3", "4", "5", "6", "7", "8", "9", "10"}

\* int() on a digit string
int(v) == CASE v = "2" -> 2 [] v = "3" -> 3 [] v = "4" -> 4 [] v = "5" -> 5
            [] v = "6" -> 6 [] v = "7" -> 7 [] v = "8" -> 8 [] v = "9" -> 9
            [] v = "10" -> 10

numeric_value(card) ==
    IF isdigit(card.value) THEN int(card.value) ELSE face_cards[card.value]

----------------------------------------------------------------------------
(* Sequence helpers (Python list operations) *)

max(a, b) == IF a >= b THEN a ELSE b
min(a, b) == IF a <= b THEN a ELSE b

\* list.pop(k), 0-based k: the list without element k
PopAt(s, k) == [j \in 1..(Len(s) - 1) |-> IF j <= k THEN s[j] ELSE s[j + 1]]

\* number of occurrences of c in s
Count(s, c) == Cardinality({j \in 1..Len(s) : s[j] = c})

\* the cut of s at k cards: s[k:] + s[:k]
Cut(s, k) ==
    IF Len(s) = 0 THEN s
    ELSE LET n == Len(s)
             m == k % n
         IN [j \in 1..n |-> s[((j - 1 + m) % n) + 1]]

\* the outcomes of random.shuffle(s) that are explored
shuffle(s) == {Cut(s, k) : k \in 0..MaxCut}

----------------------------------------------------------------------------
(* Player *)

\* Player.__init__
NewPlayer == [health |-> 20, weapon |-> None, slain_monsters |-> <<>>]

\* equip_weapon discarding the old weapon alone, the ladder kept
equip_weapon_KeepLadder(self, new_weapon, pile) ==
    [player |-> [self EXCEPT !.weapon = new_weapon],
     discard_pile |-> IF self.weapon # None
                      THEN pile \o <<self.weapon>>
                      ELSE pile]

\* Player.equip_weapon(new_weapon, discard_pile): the player and the pile
\* after the call (the pile is passed by reference and extended in place)
equip_weapon(self, new_weapon, pile) ==
    [player |-> [self EXCEPT !.weapon = new_weapon, !.slain_monsters = <<>>],
     discard_pile |-> IF self.weapon # None
                      THEN pile \o <<self.weapon>> \o self.slain_monsters
                      ELSE pile]

\* can_use_weapon_on with the comparison turned round
can_use_weapon_on_Greater(self, monster_card) ==
    IF self.weapon = None THEN FALSE
    ELSE IF self.slain_monsters = <<>> THEN TRUE
    ELSE LET last_val == numeric_value(self.slain_monsters[Len(self.slain_monsters)])
         IN numeric_value(monster_card) > last_val

\* Player.can_use_weapon_on(monster_card)
can_use_weapon_on(self, monster_card) ==
    IF self.weapon = None THEN FALSE
    ELSE IF self.slain_monsters = <<>> THEN TRUE
    ELSE LET last_val == numeric_value(self.slain_monsters[Len(self.slain_monsters)])
         IN numeric_value(monster_card) < last_val

\* attack without the floor of 0 on the damage
attack_NoFloor(self, monster_card) ==
    LET value == numeric_value(monster_card)
    IN IF self.weapon # None /\ can_use_weapon_on(self, monster_card)
       THEN LET damage == value - numeric_value(self.weapon)
            IN [self EXCEPT !.slain_monsters = Append(@, monster_card),
                            !.health = @ - damage]
       ELSE LET damage == value
            IN [self EXCEPT !.health = @ - damage]

\* Player.attack(monster_card): the player after the call
attack(self, monster_card) ==
    LET value == numeric_value(monster_card)
    IN IF self.weapon # None /\ can_use_weapon_on(self, monster_card)
       THEN LET damage == max(0, value - numeric_value(self.weapon))
            IN [self EXCEPT !.slain_monsters = Append(@, monster_card),
                            !.health = @ - damage]
       ELSE LET damage == value
            IN [self EXCEPT !.health = @ - damage]

\* use_potion without the cap at 20
use_potion_NoCap(self, potion_card, used_already) ==
    IF used_already
    THEN [player |-> self, ret |-> FALSE]
    ELSE LET heal == numeric_value(potion_card)
         IN [player |-> [self EXCEPT !.health = @ + heal],
             ret |-> TRUE]

\* Player.use_potion(potion_card, used_already): the player after the call
\* and the returned flag
use_potion(self, potion_card, used_already) ==
    IF used_already
    THEN [player |-> self, ret |-> FALSE]
    ELSE LET heal == numeric_value(potion_card)
         IN [player |-> [self EXCEPT !.health = min(@ + heal, 20)],
             ret |-> TRUE]

----------------------------------------------------------------------------
(* Game *)

suits == <<"Hearts", "Diamonds", "Spades", "Clubs">>

values == <<"Ace", "2", "3", "4", "5", "6", "7", "8", "9", "10", "J", "Q", "K">>

\* build_deck removing the red face cards and Ace of Hearts only
build_deck_HeartsOnly ==
    LET full == [k \in 1..(Len(suits) * Len(values)) |->
                   Card(values[((k - 1) % Len(values)) + 1],
                        suits[((k - 1) \div Len(values)) + 1])]
        keep(card) ==
            ~(card.suit = "Hearts" /\ card.value \in {"J", "Q", "K", "Ace"})
    IN SelectSeq(full, keep)

\* Game.build_deck: suit-major list of the 52 cards, filtered
build_deck ==
    LET full == [k \in 1..(Len(suits) * Len(values)) |->
                   Card(values[((k - 1) % Len(values)) + 1],
                        suits[((k - 1) \div Len(values)) + 1])]
        keep(card) ==
            /\ ~(card.suit = "Hearts" /\ card.value \in {"J", "Q", "K", "Ace"})
            /\ ~(card.suit = "Diamonds" /\ card.value \in {"J", "Q", "K", "Ace"})
    IN SelectSeq(full, keep)

\* a room filled while it holds 4 cards or fewer
RECURSIVE Fill_Five(_, _)
Fill_Five(r, d) ==
    IF Len(r) <= 4 /\ d # <<>> THEN Fill_Five(Append(r, Head(d)), Tail(d))
    ELSE [room |-> r, deck |-> d]

\* Game.draw_room: the room returned and the deck left
RECURSIVE Fill(_, _)
Fill(r, d) ==
    IF Len(r) < 4 /\ d # <<>> THEN Fill(Append(r, Head(d)), Tail(d))
    ELSE [room |-> r, deck |-> d]

\* draw_room with the carryover put after the cards drawn
draw_room_CarryLast(carryover, d) ==
    LET f == Fill(carryover, d)
        n == Len(f.room) - Len(carryover)
    IN [room |-> SubSeq(d, 1, n) \o carryover, deck |-> f.deck]

\* draw_room with the carryover forgotten
draw_room_NoCarry(carryover, d) == Fill(<<>>, d)

draw_room(carryover, d) == Fill(carryover, d)

\* the win test off by one
exhausted_OffByOne(r) == Len(r) <= 4

\* play_turn line 119: the room drawn is too short, the dungeon is exhausted
exhausted(r) == Len(r) < 4

\* the death test missing health 0
dead_Below0(p) == p.health < 0

\* play_turn line 156: the death test after a resolution
dead(p) == p.health <= 0

\* skip_room testing last_room_skipped only after the room is back in the deck
skip_room_LateTest(d, r, skipped) ==
    {[deck |-> s, last_room_skipped |-> TRUE, ret |-> ~skipped,
      printed |-> IF skipped THEN "Can't skip two rooms in a row!"
                  ELSE "Room skipped."] : s \in shuffle(d \o r)}

\* skip_room putting back the cards drawn but not the card carried over
skip_room_DropFirst(d, r, skipped) ==
    IF skipped
    THEN {[deck |-> d, last_room_skipped |-> skipped, ret |-> FALSE,
           printed |-> "Can't skip two rooms in a row!"]}
    ELSE {[deck |-> s, last_room_skipped |-> TRUE, ret |-> TRUE,
           printed |-> "Room skipped."] : s \in shuffle(d \o Tail(r))}

\* skip_room leaving last_room_skipped as it is
skip_room_NoFlag(d, r, skipped) ==
    IF skipped
    THEN {[deck |-> d, last_room_skipped |-> skipped, ret |-> FALSE,
           printed |-> "Can't skip two rooms in a row!"]}
    ELSE {[deck |-> s, last_room_skipped |-> skipped, ret |-> TRUE,
           printed |-> "Room skipped."] : s \in shuffle(d \o r)}

\* Game.skip_room(room): the outcomes of the call; the shuffle makes it a set
skip_room(d, r, skipped) ==
    IF skipped
    THEN {[deck |-> d, last_room_skipped |-> skipped, ret |-> FALSE,
           printed |-> "Can't skip two rooms in a row!"]}
    ELSE {[deck |-> s, last_room_skipped |-> TRUE, ret |-> TRUE,
           printed |-> "Room skipped."] : s \in shuffle(d \o r)}

\* play_turn lines 145-154: one iteration of the resolution loop once a valid
\* choice is read. st = [player, discard_pile, room, potion_used, printed]
Resolution(st, choice) ==
    LET card == st.room[choice + 1]
        rest == PopAt(st.room, choice)
    IN IF card.suit \in {"Spades", "Clubs"}
       THEN [player |-> attack(st.player, card),
             discard_pile |-> Append(st.discard_pile, card),
             room |-> rest,
             potion_used |-> st.potion_used,
             printed |-> "Health"]
       ELSE IF card.suit = "Diamonds"
       THEN LET e == equip_weapon(st.player, card, st.discard_pile)
            IN [player |-> e.player,
                discard_pile |-> e.discard_pile,
                room |-> rest,
                potion_used |-> st.potion_used,
                printed |-> "You equip"]
       ELSE IF card.suit = "Hearts"
       THEN LET u == use_potion(st.player, card, st.potion_used)
            IN [player |-> u.player,
                discard_pile |-> Append(st.discard_pile, card),
                room |-> rest,
                potion_used |-> u.ret,
                printed |-> IF u.ret THEN "Healed" ELSE "Already used potion"]
       ELSE [st EXCEPT !.room = rest]

----------------------------------------------------------------------------
(* The shuffles of the initial deck that are explored *)

H(v) == Card(v, "Hearts")
D(v) == Card(v, "Diamonds")
S(v) == Card(v, "Spades")
C(v) == Card(v, "Clubs")

\* One outcome of random.shuffle(build_deck) in Game.__init__
DeckA ==
    << D("5"), C("9"), C("3"),     H("2"), H("3"), H("4"),
       D("10"), S("Ace"), S("K"), S("Q"), S("J"), S("10"),
       S("9"), S("8"), S("7"),     S("6"), S("5"), S("4"),
       S("3"), S("2"), H("5"),     D("9"), C("Q"), C("J"),
       H("6"), C("10"), C("8"),    H("7"), C("7"), C("6"),
       C("5"), C("4"), C("2"),     H("8"), D("2"), D("3"),
       D("4"), D("6"), D("7"),
       C("K"), H("9"), D("8"), C("Ace"), H("10") >>

\* d is an outcome of random.shuffle(s): same length, same cards
IsShuffleOf(d, s) ==
    /\ Len(d) = Len(s)
    /\ \A j \in 1..Len(s) : Count(d, s[j]) = Count(s, s[j])

InitialShuffles == {d \in {DeckA} : IsShuffleOf(d, build_deck)}

\* Game.__init__ with the deck shuffled to d, at the loop of run_game
NewGame(d) ==
    [player |-> NewPlayer, deck |-> d, discard_pile |-> <<>>,
     last_room_skipped |-> FALSE, room_carryover |-> <<>>,
     printed |-> "Welcome to Scoundrel!"]

\* play_turn on g with the skip declined and the three choices `choices`
\* (0-based indices). The game is returned as it is when the loop of run_game
\* or the turn would end the game.
PlayedTurn(g, choices) ==
    IF ~(g.deck # <<>> /\ g.player.health > 0) THEN g
    ELSE LET dr == draw_room(g.room_carryover, g.deck)
         IN IF exhausted(dr.room) THEN g
            ELSE LET s0 == [player |-> g.player, discard_pile |-> g.discard_pile,
                            room |-> dr.room, potion_used |-> FALSE,
                            printed |-> "Room"]
                     s1 == Resolution(s0, choices[1])
                 IN IF dead(s1.player) THEN g
                    ELSE LET s2 == Resolution(s1, choices[2])
                         IN IF dead(s2.player) THEN g
                            ELSE LET s3 == Resolution(s2, choices[3])
                                 IN IF dead(s3.player) THEN g
                                    ELSE [player |-> s3.player,
                                          deck |-> dr.deck,
                                          discard_pile |-> s3.discard_pile,
                                          last_room_skipped |-> FALSE,
                                          room_carryover |-> s3.room,
                                          printed |-> s3.printed]

\* the game after n turns in each of which the first three cards of the room
\* are resolved in room order
RECURSIVE PlayedAhead(_, _)
PlayedAhead(g, n) ==
    IF n = 0 THEN g ELSE PlayedTurn(PlayedAhead(g, n - 1), <<0, 0, 0>>)

\* the turns of a game in which the deck always supplies a full room:
\* a room resolved takes 3 cards, the first room takes 4
FullRooms(d) == (Len(d) - 1) \div 3

\* The games explored: each new game, and the same game played ahead to its
\* last full room (the endgame no search from the new game reaches in MaxTurns)
Games ==
    {NewGame(d) : d \in InitialShuffles}
      \cup {PlayedAhead(NewGame(d), FullRooms(d) - 1) : d \in InitialShuffles}

----------------------------------------------------------------------------
(* run_game *)

\* the program at the loop of run_game in game g

Start(g) ==
        /\ player = g.player
        /\ deck = g.deck
        /\ discard_pile = g.discard_pile
        /\ last_room_skipped = g.last_room_skipped
        /\ room_carryover = g.room_carryover
        /\ room = <<>>
        /\ potion_used = FALSE
        /\ resolved = 0
        /\ pc = "run_game"
        /\ printed = g.printed
        /\ turns = 0

Init == \E g \in Games : Start(g)

\* the new games alone
InitNew == \E d \in InitialShuffles : Start(NewGame(d))

\* run_game line 169 and play_turn lines 118-127: the loop guard, then the
\* draw, the win test and the test of last_room_skipped
BeginTurn ==
    /\ pc = "run_game"
    /\ turns < MaxTurns
    /\ IF deck # <<>> /\ player.health > 0
       THEN LET dr == draw_room(room_carryover, deck)
            IN /\ room' = dr.room
               /\ deck' = dr.deck
               /\ room_carryover' = <<>>
               /\ turns' = turns + 1
               /\ IF exhausted(dr.room)
                  THEN /\ pc' = "win"
                       /\ printed' = "Dungeon exhausted"
                       /\ UNCHANGED <<last_room_skipped, potion_used>>
                  ELSE IF ~last_room_skipped
                  THEN /\ pc' = "ask_skip"
                       /\ printed' = "Room"
                       /\ UNCHANGED <<last_room_skipped, potion_used>>
                  ELSE /\ pc' = "choose"
                       /\ printed' = "Room"
                       /\ last_room_skipped' = FALSE
                       /\ potion_used' = FALSE
       ELSE /\ pc' = "exit"
            /\ UNCHANGED <<room, deck, room_carryover, turns, printed,
                           last_room_skipped, potion_used>>
    /\ UNCHANGED <<player, discard_pile, resolved>>

\* play_turn lines 128-133: the answer to "Skip room? (Y/N)"
AnswerSkip(answer) ==
    /\ pc = "ask_skip"
    /\ IF answer = "Y"
       THEN \E k \in skip_room(deck, room, last_room_skipped) :
              IF k.ret
              THEN /\ deck' = k.deck
                   /\ last_room_skipped' = k.last_room_skipped
                   /\ printed' = k.printed
                   /\ room' = <<>>
                   /\ pc' = "run_game"
                   /\ UNCHANGED potion_used
              ELSE /\ last_room_skipped' = FALSE
                   /\ potion_used' = FALSE
                   /\ printed' = k.printed
                   /\ pc' = "choose"
                   /\ UNCHANGED <<deck, room>>
       ELSE /\ last_room_skipped' = FALSE
            /\ potion_used' = FALSE
            /\ pc' = "choose"
            /\ UNCHANGED <<deck, room, printed>>
    /\ UNCHANGED <<player, discard_pile, room_carryover, resolved, turns>>

\* a rejected choice using up one of the three resolutions of the room
InvalidChoice_Counts(choice) ==
    /\ pc = "choose"
    /\ ~(0 <= choice /\ choice < Len(room))
    /\ printed' = "Invalid input."
    /\ resolved' = (resolved + 1) % 3
    /\ UNCHANGED <<player, deck, discard_pile, last_room_skipped,
                   room_carryover, room, potion_used, pc, turns>>

\* play_turn lines 136-143: a choice that is not an index of the room
InvalidChoice(choice) ==
    /\ pc = "choose"
    /\ ~(0 <= choice /\ choice < Len(room))
    /\ printed' = "Invalid input."
    /\ UNCHANGED <<player, deck, discard_pile, last_room_skipped,
                   room_carryover, room, potion_used, resolved, pc, turns>>

\* a room left after two resolutions
Resolutions_Two == 3 - 1

\* a room left only after a fourth resolution
Resolutions_Four == 3 + 1

\* play_turn line 135: the resolutions of a room, range(3)
Resolutions == 3

\* play_turn lines 136-161: a valid choice, its resolution, the death test
\* and, after the third resolution, the carryover and the return
Choose(choice) ==
    /\ pc = "choose"
    /\ 0 <= choice /\ choice < Len(room)
    /\ LET st == Resolution([player |-> player, discard_pile |-> discard_pile,
                             room |-> room, potion_used |-> potion_used,
                             printed |-> printed], choice)
       IN /\ player' = st.player
          /\ discard_pile' = st.discard_pile
          /\ IF dead(st.player)
             THEN /\ pc' = "dead"
                  /\ printed' = "You died. Game over."
                  /\ room' = st.room
                  /\ potion_used' = st.potion_used
                  /\ UNCHANGED <<room_carryover, resolved>>
             ELSE IF resolved + 1 = Resolutions
             THEN /\ pc' = "run_game"
                  /\ printed' = st.printed
                  /\ room_carryover' = st.room
                  /\ room' = <<>>
                  /\ potion_used' = FALSE
                  /\ resolved' = 0
             ELSE /\ pc' = "choose"
                  /\ printed' = st.printed
                  /\ room' = st.room
                  /\ potion_used' = st.potion_used
                  /\ resolved' = resolved + 1
                  /\ UNCHANGED room_carryover
    /\ UNCHANGED <<deck, last_room_skipped, turns>>

\* play_turn lines 121 and 158 return False, run_game line 171 breaks: the
\* locals of play_turn are gone and the program ends
Break ==
    /\ pc \in {"win", "dead"}
    /\ pc' = "exit"
    /\ room' = <<>>
    /\ potion_used' = FALSE
    /\ resolved' = 0
    /\ UNCHANGED <<player, deck, discard_pile, last_room_skipped,
                   room_carryover, printed, turns>>

Next ==
    \/ BeginTurn
    \/ \E answer \in {"Y", "N"} : AnswerSkip(answer)
    \/ \E choice \in -1..4 : InvalidChoice(choice)
    \/ \E choice \in 0..3 : Choose(choice)
    \/ Break

Spec == Init /\ [][Next]_vars

SpecNew == InitNew /\ [][Next]_vars

\* the games at their last full room alone: no play from there takes more
\* than MaxTurns turns, so the bound on the turns explored never cuts it short
InitLast ==
    \E d \in InitialShuffles :
       Start(PlayedAhead(NewGame(d), FullRooms(d) - 1))

\* The program is sequential, so each of its own steps is taken once it is
\* due; the player is taken to answer every prompt and to end every run of
\* rejected choices with a valid one. Rejected choices get no fairness.
SpecLive ==
    /\ InitLast /\ [][Next]_vars
    /\ WF_vars(BeginTurn)
    /\ WF_vars(\E answer \in {"Y", "N"} : AnswerSkip(answer))
    /\ WF_vars(\E choice \in 0..3 : Choose(choice))
    /\ WF_vars(Break)

----------------------------------------------------------------------------
(* Game.skip_room called on any room drawn *)

\* play_turn calls skip_room only when last_room_skipped is false (line 127).
\* Here the call of line 129 is made on every room drawn, whatever the flag,
\* so that the rejecting branch of skip_room (lines 105-107) is exercised.

\* the games at the loop of run_game right after their next room was skipped
Skipped(g) ==
    LET dr == draw_room(g.room_carryover, g.deck)
    IN {[g EXCEPT !.deck = k.deck,
                  !.last_room_skipped = k.last_room_skipped,
                  !.room_carryover = <<>>,
                  !.printed = k.printed] :
           k \in {x \in skip_room(dr.deck, dr.room, g.last_room_skipped) :
                     x.ret}}

\* a full room has been drawn in a game and skip_room is about to be called
InitSkipRoom ==
    \E g \in Games \cup UNION {Skipped(h) : h \in Games} :
       LET dr == draw_room(g.room_carryover, g.deck)
       IN /\ ~exhausted(dr.room)
          /\ player = g.player
          /\ deck = dr.deck
          /\ discard_pile = g.discard_pile
          /\ last_room_skipped = g.last_room_skipped
          /\ room_carryover = <<>>
          /\ room = dr.room
          /\ potion_used = FALSE
          /\ resolved = 0
          /\ pc = "skip_room"
          /\ printed = "Room"
          /\ turns = IF g.last_room_skipped THEN 2 ELSE 1

\* skip_room lines 104-114 called as at line 129; line 130 returns True when
\* the skip is granted
SkipRoomCall ==
    /\ pc = "skip_room"
    /\ \E k \in skip_room(deck, room, last_room_skipped) :
          /\ deck' = k.deck
          /\ last_room_skipped' = k.last_room_skipped
          /\ printed' = k.printed
          /\ room' = IF k.ret THEN <<>> ELSE room
          /\ pc' = IF k.ret THEN "run_game" ELSE "rejected"
    /\ UNCHANGED <<player, discard_pile, room_carryover, potion_used,
                   resolved, turns>>

\* play_turn lines 132-133 after skip_room returned False
Rejected ==
    /\ pc = "rejected"
    /\ last_room_skipped' = FALSE
    /\ potion_used' = FALSE
    /\ pc' = "choose"
    /\ UNCHANGED <<player, deck, discard_pile, room_carryover, room,
                   resolved, printed, turns>>

NextSkipRoom ==
    \/ SkipRoomCall
    \/ Rejected
    \/ BeginTurn
    \/ \E answer \in {"Y", "N"} : AnswerSkip(answer)
    \/ \E choice \in -1..4 : InvalidChoice(choice)
    \/ \E choice \in 0..3 : Choose(choice)
    \/ Break

SpecSkipRoom == InitSkipRoom /\ [][NextSkipRoom]_vars

----------------------------------------------------------------------------
(* Games on the deck as build_deck returns it *)

\* Game.__init__ with the deck left in the order of build_deck (one of the
\* outcomes of the shuffle), and the same game played ahead as long as the
\* first three cards of each room are survived
DeckGames ==
    {NewGame(build_deck),
     PlayedAhead(NewGame(build_deck), FullRooms(build_deck) - 1)}

InitDeck == \E g \in DeckGames : Start(g)

SpecDeck == InitDeck /\ [][Next]_vars

----------------------------------------------------------------------------
(* Properties *)

Held ==
    deck \o discard_pile \o room \o room_carryover
      \o (IF player.weapon = None THEN <<>> ELSE <<player.weapon>>)
      \o player.slain_monsters

Cards(s) == {s[j] : j \in 1..Len(s)}

IsMonster(card) == card.suit \in {"Spades", "Clubs"}
IsWeapon(card) == card.suit = "Diamonds"
IsPotion(card) == card.suit = "Hearts"

\* the step resolves the card at index i of the room
Chose(i) ==
    /\ pc = "choose"
    /\ i \in 0..(Len(room) - 1)
    /\ pc' \in {"choose", "run_game", "dead"}
    /\ (IF pc' = "run_game" THEN room_carryover' ELSE room') = PopAt(room, i)

\* C1: no card appears more than once across the deck, the discard pile, the
\* room, the carryover, the weapon slot and the ladder taken together.
C1_NoCardTwice == \A j \in 1..Len(Held) : Count(Held, Held[j]) = 1

\* C2 as claimed: at every turn boundary, the end of the game included, each
\* card of build_deck is held by a container and no other card is.
C2_AllCardsAtEveryBoundary ==
    pc \in {"run_game", "exit"} => Cards(Held) = Cards(build_deck)

\* C2 as amended: at every turn boundary at which the game goes on (the loop of
\* run_game is about to call play_turn), each card of build_deck is in the
\* deck, the discard pile, the carryover, the weapon slot or the ladder, and
\* no other card is.
C2_AllCardsWhileRunning ==
    pc = "run_game" =>
        /\ room = <<>>
        /\ Cards(Held) = Cards(build_deck)
        /\ Len(build_deck) = 44

C2_Witness ==
    /\ pc = "run_game"
    /\ turns > 0
    /\ Len(room_carryover) = 1
    /\ discard_pile # <<>>
    /\ player.weapon # None

\* C3: within a turn, once a Hearts card has healed, the potion flag stays
\* set for the rest of the turn and every later Hearts card of the turn (the
\* second and the third) leaves health unchanged; the flag is false when the
\* resolution of a room starts.
C3_PotionCap ==
    [][/\ (pc = "choose" /\ potion_used /\ pc' = "choose") => potion_used'
       /\ (pc = "choose" /\ (potion_used \/ printed = "Already used potion")) =>
             \A i \in 0..3 :
                (Chose(i) /\ IsPotion(room[i + 1])) =>
                    player'.health = player.health
       /\ (pc # "choose" /\ pc' = "choose") => ~potion_used']_vars

\* C4: an attack on a monster of strength V with weapon strength W and last
\* ladder value L uses the weapon iff a weapon is held and the ladder is empty
\* or V < L; then health falls by max(0, V - W) and the monster is appended to
\* the ladder; otherwise health falls by V and the ladder is unchanged. The
\* weapon is unchanged and health never rises.
C4_Attack ==
    [][\A i \in 0..3 :
          (Chose(i) /\ IsMonster(room[i + 1])) =>
             LET monster == room[i + 1]
                 V == numeric_value(monster)
                 ladder == player.slain_monsters
                 held == player.weapon # None
                 usable == held /\ (ladder = <<>>
                                      \/ V < numeric_value(ladder[Len(ladder)]))
             IN /\ player'.weapon = player.weapon
                /\ player'.health <= player.health
                /\ IF usable
                   THEN LET W == numeric_value(player.weapon)
                        IN /\ player'.health =
                                player.health - (IF V - W > 0 THEN V - W ELSE 0)
                           /\ player'.slain_monsters = Append(ladder, monster)
                   ELSE /\ player'.health = player.health - V
                        /\ player'.slain_monsters = ladder]_vars

\* an attack with the weapon has followed another one, and one was paid for
C4_Witness ==
    /\ pc = "choose"
    /\ player.weapon # None
    /\ Len(player.slain_monsters) >= 2
    /\ player.health < 20

\* C5: a room is offered for skipping iff the previous turn was not a skip; a
\* skip asked for is then granted; the room after a skipped one is resolved
\* with no skip, and while a room is resolved last_room_skipped is false.
C5_NoTwoSkips ==
    [][/\ (pc = "run_game" /\ pc' \in {"ask_skip", "choose"}) =>
             (pc' = "ask_skip" <=> printed # "Room skipped.")
       /\ (pc = "run_game" /\ printed = "Room skipped.") =>
             (printed' # "Room skipped." /\ pc' # "ask_skip")
       /\ (printed' = "Room skipped." /\ printed # "Room skipped.") =>
             (pc = "ask_skip" /\ pc' = "run_game" /\ last_room_skipped')
       /\ AnswerSkip("Y") => printed' = "Room skipped."
       /\ (pc' = "choose" => ~last_room_skipped')
       /\ (pc = "choose" /\ pc' = "run_game") => ~last_room_skipped']_vars

\* a room is offered for skipping in the third turn of a new game, one of the
\* two turns before it having been skipped and the other resolved
C5_Witness ==
    /\ pc = "ask_skip"
    /\ turns = 3
    /\ Len(deck) + Len(room) = Len(build_deck) - 3

\* C6: health is at most 20; it rises only when a potion is consumed, to
\* min(health + potion value, 20).
C6_HealthCap ==
    /\ [](player.health <= 20)
    /\ [][player'.health > player.health =>
            \E i \in 0..3 :
               /\ Chose(i)
               /\ IsPotion(room[i + 1])
               /\ LET sum == player.health + numeric_value(room[i + 1])
                  IN player'.health = (IF sum <= 20 THEN sum ELSE 20)]_vars

\* a potion has just healed up to the cap
C6_Witness ==
    /\ printed = "Healed"
    /\ player.health = 20
    /\ discard_pile # <<>>
    /\ IsMonster(discard_pile[1])

\* C7: play_turn declares the win exactly when the room drawn has fewer than 4
\* cards, before any skip or choice, and the loss exactly when health is <= 0
\* after a resolution (of a monster); otherwise the game goes on, and it ends
\* only by a win or a loss.
C7_WinLoss ==
    /\ pc = "win" => (Len(room) < 4 /\ resolved = 0 /\ player.health > 0
                        /\ printed = "Dungeon exhausted")
    /\ pc = "ask_skip" => (Len(room) = 4 /\ resolved = 0)
    /\ pc = "choose" => Len(room) = 4 - resolved
    /\ pc = "dead" <=> (player.health <= 0 /\ pc # "exit")
    /\ pc = "dead" => (printed = "You died. Game over."
                         /\ IsMonster(discard_pile[Len(discard_pile)]))
    /\ pc \in {"run_game", "ask_skip", "choose"} =>
          (player.health > 0
             /\ printed \notin {"Dungeon exhausted", "You died. Game over."})
    /\ pc = "exit" =>
          \/ (printed = "Dungeon exhausted" /\ player.health > 0)
          \/ (printed = "You died. Game over." /\ player.health <= 0)

\* the win is declared on a short room
C7_Witness ==
    /\ pc = "win"
    /\ room # <<>>
    /\ deck = <<>>

\* C8: once health is <= 0, or the win is declared, the only step left is the
\* end of the program: no card is resolved, no carryover set and no room
\* drawn; the step in which the player dies sets no carryover; nothing
\* follows the end.
C8_Terminal ==
    [][/\ (player.health <= 0 \/ pc \in {"win", "dead"}) =>
             (pc' = "exit" /\ UNCHANGED <<player, deck, discard_pile,
                                          room_carryover, last_room_skipped>>)
       /\ (player'.health <= 0 /\ player.health > 0) =>
             (pc' = "dead" /\ UNCHANGED <<deck, room_carryover>>
                /\ room_carryover = <<>>)
       /\ pc # "exit"]_vars

\* the player has died with cards of the room left to resolve
C8_Witness ==
    /\ pc = "dead"
    /\ resolved < 2
    /\ Len(room) >= 2

\* C9: a resolved room survived leaves exactly one card, the carryover; the
\* next draw_room puts it at index 0 of the room, followed by the cards taken
\* from the front of the deck, in deck order.
C9_Carryover ==
    [][/\ (pc = "choose" /\ pc' = "run_game") =>
             (/\ resolved = 2
              /\ Len(room) = 2
              /\ Len(room_carryover') = 1
              /\ room_carryover'[1] \in Cards(room))
       /\ (pc = "run_game" /\ pc' \in {"ask_skip", "choose", "win"}) =>
             LET n == Len(room') - Len(room_carryover)
             IN /\ Len(room_carryover) <= 1
                /\ n >= 0 /\ n <= Len(deck)
                /\ room' = room_carryover \o SubSeq(deck, 1, n)
                /\ deck' = SubSeq(deck, n + 1, Len(deck))
                /\ room_carryover' = <<>>]_vars

\* a room holding the card carried over from the resolved room before it
C9_Witness ==
    /\ pc = "ask_skip"
    /\ turns >= 2
    /\ Len(room) = 4

\* C10: equip_weapon moves a held weapon and the whole ladder to the end of
\* the discard pile and leaves the pile alone when no weapon is held; then the
\* weapon is the new one, the ladder is empty and health is unchanged. The
\* ladder is empty after every change of weapon.
C10_Equip ==
    [][/\ \A i \in 0..3 :
            (Chose(i) /\ IsWeapon(room[i + 1])) =>
               /\ player'.weapon = room[i + 1]
               /\ player'.slain_monsters = <<>>
               /\ player'.health = player.health
               /\ discard_pile' =
                     (IF player.weapon # None
                      THEN discard_pile \o <<player.weapon>>
                              \o player.slain_monsters
                      ELSE discard_pile)
       /\ player'.weapon # player.weapon => player'.slain_monsters = <<>>]_vars

\* a weapon has replaced one with which monsters had been slain
C10_Witness ==
    /\ printed = "You equip"
    /\ player.slain_monsters = <<>>
    /\ Len(discard_pile) >= 2
    /\ IsMonster(discard_pile[Len(discard_pile)])
    /\ \E j \in 1..Len(discard_pile) : IsWeapon(discard_pile[j])

\* C11: a successful skip puts the 4 cards of the room, the card carried over
\* included, back into the deck, which is then a permutation of the old deck
\* plus those cards; it sets last_room_skipped, leaves the carryover empty
\* and the player and the discard pile unchanged; no card is resolved.
C11_Skip ==
    [][(pc = "ask_skip" /\ pc' = "run_game") =>
          /\ Len(room) = 4
          /\ IsShuffleOf(deck', deck \o room)
          /\ last_room_skipped'
          /\ room_carryover' = <<>>
          /\ room' = <<>>
          /\ resolved = 0 /\ resolved' = 0
          /\ UNCHANGED <<player, discard_pile>>]_vars

\* a room holding a card carried over has been skipped
C11_Witness ==
    /\ pc = "run_game"
    /\ printed = "Room skipped."
    /\ last_room_skipped
    /\ discard_pile # <<>>
    /\ Len(deck) + Len(discard_pile) >= Len(build_deck)

\* C12: skip_room called while last_room_skipped is true is rejected: it
\* returns false and changes nothing, neither the deck and its order, nor the
\* room, nor last_room_skipped; the caller then goes on to resolve the room.
C12_Rejected ==
    [][/\ (pc = "skip_room" /\ last_room_skipped) =>
             /\ pc' = "rejected"
             /\ printed' = "Can't skip two rooms in a row!"
             /\ UNCHANGED <<player, deck, discard_pile, last_room_skipped,
                            room_carryover, room, potion_used, resolved>>
       /\ (pc = "rejected") =>
             /\ pc' = "choose"
             /\ Len(room') = 4
             /\ UNCHANGED <<player, deck, discard_pile, room_carryover, room>>
      ]_vars

\* the room drawn after a skipped room is being resolved after skip_room
\* refused to skip it
C12_Witness ==
    /\ pc = "choose"
    /\ printed = "Can't skip two rooms in a row!"
    /\ Len(room) = 4
    /\ turns = 2

\* C13: a choice outside the bounds of the current room is rejected: a card
\* is resolved only at an index of the room, and the rejection changes
\* neither the player, the room, the deck, the discard pile, the flags nor
\* the number of resolutions still owed in the room.
C13_InvalidChoice ==
    [][pc = "choose" =>
          \/ \E i \in 0..(Len(room) - 1) : Chose(i)
          \/ /\ printed' = "Invalid input."
             /\ UNCHANGED <<player, deck, discard_pile, last_room_skipped,
                            room_carryover, room, potion_used, resolved,
                            pc>>]_vars

\* an index was rejected in a room that has shrunk to two cards
C13_Witness ==
    /\ pc = "choose"
    /\ printed = "Invalid input."
    /\ Len(room) = 2
    /\ resolved = 2

\* C14: a turn runs in strict order: the decision on the room, then exactly
\* three resolutions, then the carryover. No card is resolved before the
\* decision is made, a room that is not skipped and is survived has exactly
\* 3 of its 4 cards resolved, and the next room is drawn only after that.
C14_Order ==
    [][/\ (pc = "ask_skip") =>
             /\ pc' \in {"choose", "run_game"}
             /\ UNCHANGED <<player, discard_pile>>
       /\ (pc # "choose" /\ pc' = "choose") =>
             /\ pc \in {"ask_skip", "run_game"}
             /\ Len(room') = 4
             /\ UNCHANGED <<player, discard_pile>>
       /\ (player' # player \/ discard_pile' # discard_pile) =>
             \E i \in 0..(Len(room) - 1) : Chose(i)
       /\ (pc = "choose" /\ pc' = "choose" /\ room' # room) =>
             /\ Len(room') = Len(room) - 1
             /\ Len(room') >= 2
       /\ (pc = "choose" /\ pc' = "run_game") =>
             /\ Len(room) = 2
             /\ Len(room_carryover') = 1
             /\ room' = <<>>
       /\ (deck' # deck /\ pc' # "run_game") =>
             /\ pc = "run_game"
             /\ room = <<>>
      ]_vars

\* a room was kept and its third resolution has handed over the carryover
C14_Witness ==
    /\ pc = "run_game"
    /\ turns = 1
    /\ ~last_room_skipped
    /\ Len(room_carryover) = 1
    /\ Len(deck) + Len(room_carryover) = Len(build_deck) - 3

\* C15: build_deck yields exactly 44 cards, pairwise distinct; none of them
\* is a Jack, Queen, King or Ace of Hearts or Diamonds; all 26 cards of
\* Spades and Clubs and the ranks 2 to 10 of Hearts and of Diamonds are in
\* it. Stated of the game just constructed, whose deck holds these cards.
C15_Deck ==
    (turns = 0 /\ discard_pile = <<>>) =>
       LET ranks == {"2", "3", "4", "5", "6", "7", "8", "9", "10"}
           faces == {"J", "Q", "K", "Ace"}
       IN /\ Len(build_deck) = 44
          /\ \A j, k \in 1..Len(build_deck) :
                j # k => build_deck[j] # build_deck[k]
          /\ \A j \in 1..Len(build_deck) :
                ~(/\ build_deck[j].suit \in {"Hearts", "Diamonds"}
                  /\ build_deck[j].value \in faces)
          /\ \A su \in {"Spades", "Clubs"} : \A v \in ranks \cup faces :
                \E j \in 1..Len(build_deck) : build_deck[j] = Card(v, su)
          /\ \A su \in {"Hearts", "Diamonds"} : \A v \in ranks :
                \E j \in 1..Len(build_deck) : build_deck[j] = Card(v, su)
          /\ Len(deck) = 44
          /\ \A j \in 1..Len(build_deck) : Count(deck, build_deck[j]) = 1

\* a new game holding the deck just built
C15_Witness ==
    /\ pc = "run_game"
    /\ turns = 0
    /\ player = NewPlayer
    /\ discard_pile = <<>>
    /\ Len(deck) = Len(build_deck)
    /\ Head(deck) = Head(build_deck)

\* C16: draw_room returns the carryover cards in order followed by cards
\* taken from the front of the deck until the room has 4 cards or the deck is
\* empty, and clears the carryover. Every room on which a skip decision or a
\* choice is made has exactly 4 cards at the start of its turn; a room is
\* shorter than 4 only when that draw emptied the deck.
C16_Room ==
    [][(pc = "run_game" /\ pc' \in {"ask_skip", "choose", "win"}) =>
          LET n == min(4 - Len(room_carryover), Len(deck))
          IN /\ room' = room_carryover \o SubSeq(deck, 1, n)
             /\ deck' = SubSeq(deck, n + 1, Len(deck))
             /\ room_carryover' = <<>>
             /\ Len(room') < 4 => deck' = <<>>
             /\ pc' \in {"ask_skip", "choose"} <=> Len(room') = 4
      ]_vars

\* the last full room: the card carried over and three of the four cards
\* left in the deck
C16_Witness ==
    /\ pc = "ask_skip"
    /\ turns = 1
    /\ Len(room) = 4
    /\ Len(deck) = 1
    /\ discard_pile # <<>>

\* What is left of the game: the cards not yet resolved and, among states
\* with the same cards, the position in the turn (a skip on record counts
\* as progress, and so does a rejected choice on the screen)
Rank ==
    7 * (Len(deck) + Len(room) + Len(room_carryover))
      + (CASE pc = "exit" -> 0
           [] pc \in {"win", "dead"} -> 1
           [] pc = "choose" /\ printed = "Invalid input." -> 2
           [] pc = "choose" /\ printed # "Invalid input." -> 3
           [] pc = "run_game" /\ last_room_skipped -> 4
           [] pc \in {"ask_skip", "skip_room", "rejected"} -> 5
           [] pc = "run_game" /\ ~last_room_skipped -> 6)

\* C17: every game terminates. While the player keeps answering and keeps
\* submitting valid choices the game reaches the win or the loss: every step
\* reduces what is left of the game, a skip cannot be repeated before a room
\* is resolved and a resolved room takes cards out of deck plus carryover for
\* good.
C17_Terminates ==
    /\ [][Rank' < Rank]_vars
    /\ <>(pc = "exit" /\ printed \in {"Dungeon exhausted",
                                      "You died. Game over."})

\* the dungeon was exhausted after a skip and two more turns
C17_Witness ==
    /\ pc = "exit"
    /\ printed = "Dungeon exhausted"
    /\ turns = 3
    /\ Len(deck) + Len(room_carryover) = 0

\* C18: the ladder is strictly decreasing in numeric value from its first
\* entry to its last, and it is non-empty only while a weapon is equipped.
C18_Ladder ==
    LET ladder == player.slain_monsters
    IN /\ \A j \in 1..(Len(ladder) - 1) :
             numeric_value(ladder[j]) > numeric_value(ladder[j + 1])
       /\ ladder # <<>> => player.weapon # None

\* two monsters have been slain with the weapon held
C18_Witness ==
    /\ player.weapon # None
    /\ Len(player.slain_monsters) = 2
    /\ numeric_value(player.slain_monsters[1])
          > numeric_value(player.slain_monsters[2])
    /\ pc = "run_game"

\* the cards resolved so far
Resolved ==
    Cards(discard_pile) \cup Cards(player.slain_monsters)
      \cup (IF player.weapon = None THEN {} ELSE {player.weapon})

\* C19: at the start of every turn the cards of the deck and of the
\* carryover together number 2 modulo 3, whatever skips and resolutions came
\* before; so the win is always declared on a final room of exactly 2 cards,
\* never 0, 1 or 3, and a game won has resolved exactly 42 of the 44 cards.
C19_TwoModThree ==
    /\ pc = "run_game" => (Len(deck) + Len(room_carryover)) % 3 = 2
    /\ pc = "win" =>
          /\ Len(room) = 2
          /\ deck = <<>> /\ room_carryover = <<>>
          /\ Cardinality(Resolved) = 42
          /\ Cardinality(Resolved \cup Cards(room)) = 44

\* the dungeon is exhausted with two cards in the room
C19_Witness ==
    /\ pc = "win"
    /\ Len(room) = 2
    /\ Cardinality(Resolved) = Len(build_deck) - 2

\* C20: the game never ends silently. Whenever run_game evaluates its loop
\* guard the deck is non-empty and the health is positive, so the loop is
\* left only through the win or the loss announced by play_turn; the deck is
\* never empty at a turn boundary with a card carried over.
C20_NoSilentEnd ==
    /\ pc = "run_game" => (deck # <<>> /\ player.health > 0)
    /\ room_carryover # <<>> => deck # <<>>
    /\ pc = "exit" => printed \in {"Dungeon exhausted", "You died. Game over."}

\* the loop guard is evaluated with one card left in the deck and one
\* carried over
C20_Witness ==
    /\ pc = "run_game"
    /\ Len(deck) = 1
    /\ Len(room_carryover) = 1
    /\ player.health > 0

====
